---- MODULE Spec2Model ----
(***************************************************************************)
(* A model of SSHClientAJM.SSHClient: the connection methods (connect,     *)
(* is_connected, send_command, close) and the terminal relay               *)
(* (_start_writer_daemon, _write_all_to_stdout, _stream_loop) driven by a  *)
(* caller on the main thread, with the paramiko transport, standard input  *)
(* and the remote side as the environment.                                 *)
(***************************************************************************)
EXTENDS Naturals, Sequences, FiniteSets

\* ---------------------------------------------------------------- bounds
MaxStdinLen == 2       \* characters on standard input
MaxConnects == 2       \* calls of connect() by the caller
MaxExec == 1           \* calls of send_command() that reach exec_command
MaxChunks == 2         \* chunks the remote side delivers on the channel
MaxChunkBytes == 2     \* bytes of a chunk when the reader runs against a scripted channel

\* ------------------------------------------------------------ value sets
NL == "\n"
Chars == {"a", NL}
Commands == {<<>>, <<"u">>}           \* the caller's command argument ("" and "u")
Passwords == {"pw1", "pw2"}
NoCode == "none"
ByteValues == {1, 195, 169}           \* an ASCII byte and the two bytes of one character

RECURSIVE SeqsUpTo(_, _)
SeqsUpTo(S, n) ==
    IF n = 0 THEN {<<>>}
    ELSE LET shorter == SeqsUpTo(S, n - 1)
         IN  shorter \cup {Append(s, c) : s \in {t \in shorter : Len(t) = n - 1}, c \in S}

RECURSIVE Flatten(_)
Flatten(ss) == IF ss = <<>> THEN <<>> ELSE Head(ss) \o Flatten(Tail(ss))

VARIABLES
    pc,                  \* main thread: "idle" (in the caller), "loop_read", "loop_send", "exited"
    password,            \* self.__password
    transport,           \* self.client's transport: "none", "active", "inactive", "faulty"
    transportGen,        \* number of transports client.connect() has created
    _connection_channel, \* 0 for None, else the generation of the transport it belongs to
    connectAttempts,     \* calls of client.connect()
    handshake,           \* how the last client.connect() went: "none" before the first,
                         \* "accepted", "rejected" (credentials), "unreachable"
    shellRequest,        \* how the last invoke_shell() went: "none" when it was not
                         \* reached, "granted", "refused"
    closeCount,          \* calls of client.close()
    closer,              \* the method whose code called close()
    stdinAll,            \* the whole content of standard input
    stdinPos,            \* characters of it already consumed
    command,             \* _stream_loop's local; <<>> stands for None and for ""
    startCommand,        \* the argument _stream_loop was entered with
    sent,                \* arguments of channel.send(), in order
    out,                 \* status lines printed on standard output
    outOther,            \* the status lines of the same run of a client built with the other password
    exitCode,            \* the argument of exit(), NoCode while running
    raised,              \* what the last call raised to the caller
    lastCall,            \* the public method the caller called last
    lastResult,          \* what is_connected returned: "true", "false", or "none"
    returnedChannel,     \* what connect() returned: 0 for None, else a channel
    cmdResult,           \* what send_command() returned
    callArg,             \* the command send_command() was called with last
    raisedInfo,          \* what the exception of send_command() carries
    execStreams,         \* the streams of the last exec_command() that were read to their end
    channelsOpened,      \* channels opened so far by invoke_shell() and exec_command()
    loopEnd,             \* how _stream_loop ended
    execCount,           \* calls of client.exec_command()
    readerStarted,       \* reader threads started
    readerAlive,         \* the reader thread is running
    chanData,            \* chunks delivered by the remote side, not yet received
    chanEOF,             \* the remote side closed the channel
    delivered,           \* every chunk the remote side delivered, in order
    stdoutData,          \* the texts the reader wrote to standard output and flushed
    stdoutPending,       \* the texts it wrote and has not flushed
    readerEnd            \* how the reader ended: "none", "eof", "decode_error"

vars == <<pc, password, transport, transportGen, _connection_channel, connectAttempts, handshake, shellRequest,
          closeCount, closer, stdinAll, stdinPos, command, startCommand, sent, out, outOther,
          exitCode, raised, lastCall, lastResult, returnedChannel, cmdResult,
          callArg, raisedInfo, execStreams, channelsOpened,
          loopEnd, execCount, readerStarted,
          readerAlive, chanData, chanEOF, delivered, stdoutData, stdoutPending, readerEnd>>

sessionVars == <<transport, transportGen, _connection_channel, connectAttempts, handshake, shellRequest, closeCount,
                 closer, sent, out, outOther, exitCode, execCount, channelsOpened, readerStarted, readerAlive>>
stdinVars == <<stdinAll, stdinPos>>
loopVars == <<command, startCommand, loopEnd>>
callVars == <<lastResult, returnedChannel, cmdResult, callArg, raisedInfo, execStreams>>

\* an exception that carries nothing of a command
NoInfo == [command |-> <<>>, cause |-> "none"]
remoteVars == <<chanData, chanEOF, delivered>>
screenVars == <<stdoutData, stdoutPending, readerEnd>>

\* __init__: the client exists, no transport, no channel
Init ==
    /\ pc = "idle"
    /\ password \in Passwords
    /\ transport = "none"
    /\ transportGen = 0
    /\ _connection_channel = 0
    /\ connectAttempts = 0
    /\ handshake = "none"
    /\ shellRequest = "none"
    /\ closeCount = 0
    /\ closer = "none"
    /\ stdinAll \in SeqsUpTo(Chars, MaxStdinLen)
    /\ stdinPos = 0
    /\ command = <<>>
    /\ startCommand = <<>>
    /\ sent = <<>>
    /\ out = <<>>
    /\ outOther = <<>>
    /\ exitCode = NoCode
    /\ raised = "none"
    /\ lastCall = "none"
    /\ lastResult = "none"
    /\ returnedChannel = 0
    /\ cmdResult = <<>>
    /\ callArg = <<>>
    /\ raisedInfo = NoInfo
    /\ execStreams = <<>>
    /\ loopEnd = "none"
    /\ execCount = 0
    /\ channelsOpened = 0
    /\ readerStarted = 0
    /\ readerAlive = FALSE
    /\ chanData = <<>>
    /\ chanEOF = FALSE
    /\ delivered = <<>>
    /\ stdoutData = <<>>
    /\ stdoutPending = <<>>
    /\ readerEnd = "none"

\* a variant that only tests that a transport handle exists
is_connected_HandleOnly(t) ==
    CASE t = "none" -> "false"
      [] t = "active" -> "true"
      [] t = "inactive" -> "true"
      [] t = "faulty" -> "raise"

\* is_connected: the outcome of self.client.get_transport().is_active()
\* under "except AttributeError: return False"
is_connected(t) ==
    CASE t = "none" -> "false"        \* get_transport() is None: AttributeError
      [] t = "active" -> "true"
      [] t = "inactive" -> "false"
      [] t = "faulty" -> "raise"      \* is_active() raises something else

\* the other of the two passwords
OtherPassword(pw) == CHOOSE q \in Passwords : q # pw

\* a variant whose "Connecting to ..." line shows the password
StatusLine_WithPassword(kind, pw) == IF kind = "connecting" THEN pw ELSE kind

\* the text of a status line printed by a client whose password is pw:
\* the f-strings read _username, _hostname, _port and the exception, never _password
StatusLine(kind, pw) == kind

\* print(...) of some status lines, in this run and in the run with the other password
Prints(kinds) ==
    /\ out' = out \o [i \in 1..Len(kinds) |-> StatusLine(kinds[i], password)]
    /\ outOther' = outOther \o [i \in 1..Len(kinds) |-> StatusLine(kinds[i], OtherPassword(password))]

\* a variant that returns to its caller instead of ending the process
close_NoExit(exit_code, caller, printed) ==
    /\ transport' = "none"
    /\ closeCount' = closeCount + 1
    /\ closer' = caller
    /\ Prints(printed \o <<"closed">>)
    /\ exitCode' = exit_code
    /\ raised' = "none"
    /\ readerAlive' = FALSE
    /\ pc' = "idle"

\* close(exit_code): client.close(), the status line, exit(exit_code)
close(exit_code, caller, printed) ==
    /\ transport' = "none"
    /\ closeCount' = closeCount + 1
    /\ closer' = caller
    /\ Prints(printed \o <<"closed">>)
    /\ exitCode' = exit_code
    /\ raised' = "SystemExit"
    /\ readerAlive' = FALSE           \* daemon thread dies with the process
    /\ pc' = "exited"

\* a call ends in the caller: an ordinary return, or an exception other than SystemExit
Returns(method, exc, result, channel, text) ==
    /\ lastCall' = method
    /\ raised' = exc
    /\ lastResult' = result
    /\ returnedChannel' = channel
    /\ cmdResult' = text
    /\ pc' = "idle"

\* what a call leaves of the command it was given
CallDetail(arg, info, streams) ==
    /\ callArg' = arg
    /\ raisedInfo' = info
    /\ execStreams' = streams

NoDetail == CallDetail(<<>>, NoInfo, <<>>)

\* a call that has not returned: nothing is returned
NothingReturned ==
    /\ lastResult' = "none"
    /\ returnedChannel' = 0
    /\ cmdResult' = <<>>
    /\ NoDetail

\* the property is_connected, read by the caller
CallIsConnected ==
    /\ pc = "idle"
    /\ IF is_connected(transport) = "raise"
       THEN Returns("is_connected", "ProbeError", "none", 0, <<>>)
       ELSE Returns("is_connected", "none", is_connected(transport), 0, <<>>)
    /\ NoDetail
    /\ UNCHANGED <<password, sessionVars, stdinVars, loopVars, remoteVars, screenVars>>

\* a variant with the except clauses in the other order: "except Exception"
\* also takes the AuthenticationException
ConnectOutcome_GenericFirst(reachable, accepted, shell) ==
    IF ~reachable \/ ~accepted \/ ~shell THEN "connection_error" ELSE "connected"

\* which clause of connect() ends the call, for what the transport does:
\* client.connect() raises AuthenticationException or another error,
\* invoke_shell() raises, or both succeed
ConnectOutcome(reachable, accepted, shell) ==
    IF ~reachable THEN "connection_error"
    ELSE IF ~accepted THEN "auth_failed"
    ELSE IF ~shell THEN "connection_error"
    ELSE "connected"

\* connect(): client.connect(), invoke_shell(), and the two except clauses
\* a variant that keeps handing out the channel of the first transport
invoke_shell_FirstTransport(gen) == 1

\* client.invoke_shell(): a channel of the transport that client.connect() has just created
invoke_shell(gen) == gen

connect ==
    /\ pc = "idle"
    /\ connectAttempts < MaxConnects
    /\ connectAttempts' = connectAttempts + 1
    /\ \E reachable \in BOOLEAN, accepted \in BOOLEAN, shell \in BOOLEAN :
         /\ handshake' = IF ~reachable THEN "unreachable"
                         ELSE IF accepted THEN "accepted" ELSE "rejected"
         /\ shellRequest' = IF reachable /\ accepted
                            THEN (IF shell THEN "granted" ELSE "refused")
                            ELSE "none"
         /\ transportGen' = IF reachable /\ accepted THEN transportGen + 1 ELSE transportGen
         /\ channelsOpened' = IF reachable /\ accepted /\ shell
                              THEN channelsOpened + 1 ELSE channelsOpened
         /\ NoDetail
         /\ IF ConnectOutcome(reachable, accepted, shell) = "connected"
            THEN /\ transport' = "active"
                 /\ _connection_channel' = invoke_shell(transportGen + 1)
                 /\ Prints(<<"connecting", "connected">>)
                 /\ Returns("connect", "none", "none", invoke_shell(transportGen + 1), <<>>)
                 /\ chanData' = <<>>
                 /\ chanEOF' = FALSE
                 /\ delivered' = <<>>
                 /\ UNCHANGED <<closeCount, closer, exitCode, readerAlive>>
            ELSE /\ close(1, "connect",
                          <<"connecting", ConnectOutcome(reachable, accepted, shell)>>)
                 /\ lastCall' = "connect"
                 /\ lastResult' = "none"
                 /\ returnedChannel' = 0
                 /\ cmdResult' = <<>>
                 /\ UNCHANGED <<_connection_channel, remoteVars>>
    /\ UNCHANGED <<password, stdinVars, loopVars, sent, execCount, readerStarted, screenVars>>

\* str.strip() on a text given as a sequence of characters
RECURSIVE LStrip(_)
LStrip(s) == IF s # <<>> /\ Head(s) = NL THEN LStrip(Tail(s)) ELSE s

RECURSIVE RStrip(_)
RStrip(s) == IF s # <<>> /\ s[Len(s)] = NL THEN RStrip(SubSeq(s, 1, Len(s) - 1)) ELSE s

strip(s) == RStrip(LStrip(s))

RawOutputs == {<<>>, <<"h">>, <<"h", NL>>}
RawErrors == {<<>>, <<"w">>, <<NL>>}

\* a variant that returns the two texts one after the other, as the
\* docstring of send_command says ("concatenated as a string")
FormatResult_Concatenated(stdout_content, stderr_content) ==
    stdout_content \o stderr_content

\* the value send_command returns for the two stream contents
FormatResult(stdout_content, stderr_content) ==
    IF stderr_content # <<>>
    THEN <<"STDOUT:", NL>> \o stdout_content \o <<NL, NL, "STDERR:", NL>> \o stderr_content
    ELSE stdout_content

\* how exec_command() and the two read() calls can go
ExecOutcomes == {"ok", "dispatch_error", "stdout_error", "stderr_error"}

\* the streams read to their end when send_command leaves
StreamsRead(outcome, so, se) ==
    CASE outcome = "ok" -> <<so, se>>
      [] outcome = "stderr_error" -> <<so>>
      [] OTHER -> <<>>

\* a variant whose message leaves the command out
FailureMessage_NoCommand(cmd, cause) == [command |-> <<>>, cause |-> cause]

\* Exception(f"Failed to execute command '{command}': {e}")
FailureMessage(cmd, cause) == [command |-> cmd, cause |-> cause]

\* send_command(command)
send_command ==
    /\ pc = "idle"
    /\ \E cmd \in Commands :
         CASE is_connected(transport) = "raise" ->
                /\ Returns("send_command", "ProbeError", "none", 0, <<>>)
                /\ CallDetail(cmd, NoInfo, <<>>)
                /\ UNCHANGED <<execCount, channelsOpened>>
           [] is_connected(transport) = "false" ->
                /\ Returns("send_command", "NotConnected", "none", 0, <<>>)
                /\ CallDetail(cmd, NoInfo, <<>>)
                /\ UNCHANGED <<execCount, channelsOpened>>
           [] is_connected(transport) = "true" ->
                /\ execCount < MaxExec
                /\ execCount' = execCount + 1
                /\ \E outcome \in ExecOutcomes, so \in RawOutputs, se \in RawErrors :
                     /\ channelsOpened' = IF outcome = "dispatch_error"
                                          THEN channelsOpened ELSE channelsOpened + 1
                     /\ IF outcome = "ok"
                        THEN /\ Returns("send_command", "none", "none", 0,
                                        FormatResult(strip(so), strip(se)))
                             /\ CallDetail(cmd, NoInfo, StreamsRead(outcome, so, se))
                        ELSE /\ Returns("send_command", "CommandFailed", "none", 0, <<>>)
                             /\ CallDetail(cmd, FailureMessage(cmd, outcome),
                                           StreamsRead(outcome, so, se))
    /\ UNCHANGED <<password, transport, transportGen, _connection_channel, connectAttempts,
                   handshake, shellRequest, closeCount, closer, sent, out, outOther, exitCode, readerStarted,
                   readerAlive, stdinVars, loopVars, remoteVars, screenVars>>

\* a variant that starts two threads on the channel
_start_writer_daemon_Twice ==
    /\ readerStarted' = readerStarted + 2
    /\ readerAlive' = TRUE

\* _start_writer_daemon(): one more daemon thread running _write_all_to_stdout
_start_writer_daemon ==
    /\ readerStarted' = readerStarted + 1
    /\ readerAlive' = TRUE

\* entry of _stream_loop(command) up to the first blocking call
EnterStreamLoop(cmd) ==
    /\ startCommand' = cmd
    /\ loopEnd' = "none"
    /\ IF cmd = <<>>
       THEN /\ command' = <<>>
            /\ pc' = "loop_read"
       ELSE /\ command' = cmd \o <<NL>>
            /\ pc' = "loop_send"

\* a variant that asks for the shell channel itself, as connect() does
StartRelay_OpensShell(method, cmd) ==
    /\ pc = "idle"
    /\ CASE is_connected(transport) = "raise" ->
              /\ Returns(method, "ProbeError", "none", 0, <<>>)
              /\ NoDetail
              /\ UNCHANGED <<readerStarted, readerAlive, loopVars, channelsOpened>>
         [] is_connected(transport) = "false" ->
              /\ Returns(method, "SSHException", "none", 0, <<>>)
              /\ NoDetail
              /\ UNCHANGED <<readerStarted, readerAlive, loopVars, channelsOpened>>
         [] is_connected(transport) = "true" ->
              /\ lastCall' = method
              /\ raised' = "none"
              /\ channelsOpened' = channelsOpened + 1
              /\ _start_writer_daemon
              /\ EnterStreamLoop(cmd)
              /\ NothingReturned
    /\ UNCHANGED <<password, transport, transportGen, _connection_channel, connectAttempts,
                   handshake, shellRequest, closeCount, closer, sent, out, outOther, exitCode, execCount,
                   stdinVars, remoteVars, screenVars>>

\* a variant whose guard closes the session instead of raising
StartRelay_ClosesWhenNotConnected(method, cmd) ==
    /\ pc = "idle"
    /\ CASE is_connected(transport) = "raise" ->
              /\ Returns(method, "ProbeError", "none", 0, <<>>)
              /\ NoDetail
              /\ UNCHANGED <<transport, closeCount, closer, out, outOther, exitCode, readerStarted,
                             readerAlive, loopVars>>
         [] is_connected(transport) = "false" ->
              /\ close(1, method, <<>>)
              /\ lastCall' = method
              /\ UNCHANGED <<readerStarted, loopVars, callVars>>
         [] is_connected(transport) = "true" ->
              /\ lastCall' = method
              /\ raised' = "none"
              /\ _start_writer_daemon
              /\ EnterStreamLoop(cmd)
              /\ NothingReturned
              /\ UNCHANGED <<transport, closeCount, closer, out, outOther, exitCode>>
    /\ UNCHANGED <<password, transportGen, _connection_channel, connectAttempts,
                   handshake, shellRequest, sent, execCount, channelsOpened,
                   stdinVars, remoteVars, screenVars>>

\* the guard shared by get_interactive_shell and non_interactive_stream,
\* then _start_writer_daemon() and _stream_loop(cmd)
StartRelay(method, cmd) ==
    /\ pc = "idle"
    /\ CASE is_connected(transport) = "raise" ->
              /\ Returns(method, "ProbeError", "none", 0, <<>>)
              /\ NoDetail
              /\ UNCHANGED <<readerStarted, readerAlive, loopVars>>
         [] is_connected(transport) = "false" ->
              /\ Returns(method, "SSHException", "none", 0, <<>>)
              /\ NoDetail
              /\ UNCHANGED <<readerStarted, readerAlive, loopVars>>
         [] is_connected(transport) = "true" ->
              /\ lastCall' = method
              /\ raised' = "none"
              /\ _start_writer_daemon
              /\ EnterStreamLoop(cmd)
              /\ NothingReturned
    /\ UNCHANGED <<password, transport, transportGen, _connection_channel, connectAttempts,
                   handshake, shellRequest, closeCount, closer, sent, out, outOther, exitCode, execCount,
                   channelsOpened, stdinVars, remoteVars, screenVars>>

get_interactive_shell == StartRelay("get_interactive_shell", <<>>)

non_interactive_stream == \E cmd \in Commands : StartRelay("non_interactive_stream", cmd)

\* what is left on standard input
StdinRest == SubSeq(stdinAll, stdinPos + 1, Len(stdinAll))

\* sys.stdin.readline(): up to and including the first line terminator,
\* the rest of the input when there is none, "" at end of input
RECURSIVE readline(_)
readline(rest) ==
    IF rest = <<>> THEN <<>>
    ELSE IF Head(rest) = NL THEN <<NL>>
    ELSE <<Head(rest)>> \o readline(Tail(rest))

\* channel.send() raises on a channel that is no longer open
ChannelOpen == transport = "active" /\ ~chanEOF

\* bytes: below 128 one character each; a lead byte of a two-byte
\* character followed by a continuation byte is one character
IsAscii(b) == b < 128
IsLead2(b) == b \in 194..223
IsContinuation(b) == b \in 128..191

\* bytes.decode() succeeds: the bytes are whole UTF-8 characters
RECURSIVE Utf8Ok(_)
Utf8Ok(bs) ==
    IF bs = <<>> THEN TRUE
    ELSE IF IsAscii(Head(bs)) THEN Utf8Ok(Tail(bs))
    ELSE IF IsLead2(Head(bs)) /\ Len(bs) >= 2 /\ IsContinuation(bs[2])
         THEN Utf8Ok(Tail(Tail(bs)))
    ELSE FALSE

\* bytes.decode(): the code points of the characters
RECURSIVE decode(_)
decode(bs) ==
    IF bs = <<>> THEN <<>>
    ELSE IF IsAscii(Head(bs)) THEN <<Head(bs)>> \o decode(Tail(bs))
    ELSE <<(Head(bs) - 192) * 64 + (bs[2] - 128)>> \o decode(Tail(Tail(bs)))

\* sys.stdout.write(text)
write(pending, text) == Append(pending, text)

\* between client.close() and the end of the process the daemon thread is
\* not joined: it may still write none, some or all of the chunks the
\* channel holds
ExitRace ==
    \E n \in 0..(IF readerAlive THEN Len(chanData) ELSE 0) :
        /\ \A i \in 1..n : Utf8Ok(chanData[i])
        /\ stdoutData' = stdoutData \o [i \in 1..n |-> decode(chanData[i])]
        /\ chanData' = SubSeq(chanData, n + 1, Len(chanData))

\* a variant with the cleanup after the loop instead of in a finally clause:
\* an exception that no except clause matches leaves without close()
StreamLoopFinally_NotOnError(how, printed) ==
    /\ loopEnd' = how
    /\ IF how \in {"send_error", "read_error"}
       THEN /\ pc' = "idle"
            /\ raised' = "Error"
            /\ UNCHANGED <<transport, closeCount, closer, out, outOther, exitCode, readerAlive,
                           chanData, stdoutData>>
       ELSE close(0, "_stream_loop", printed) /\ ExitRace

\* a variant that ends the process with code 1 after an exception
StreamLoopFinally_ExitOneOnError(how, printed) ==
    /\ close(IF how \in {"send_error", "read_error"} THEN 1 ELSE 0, "_stream_loop", printed)
    /\ ExitRace
    /\ loopEnd' = how

\* the finally clause of _stream_loop
StreamLoopFinally(how, printed) ==
    /\ close(0, "_stream_loop", printed)
    /\ ExitRace
    /\ loopEnd' = how

\* one turn of the loop from the read: "command = sys.stdin.readline()",
\* then "if not command: break"
LoopRead ==
    /\ pc = "loop_read"
    /\ LET line == readline(StdinRest)
       IN  IF line = <<>>
           THEN /\ StreamLoopFinally("eof", <<>>)
                /\ UNCHANGED <<command, stdinPos>>
           ELSE /\ command' = line
                /\ stdinPos' = stdinPos + Len(line)
                /\ pc' = "loop_send"
                /\ UNCHANGED <<transport, closeCount, closer, out, outOther, exitCode, raised,
                               readerAlive, loopEnd, chanData, stdoutData>>
    /\ UNCHANGED <<password, transportGen, _connection_channel, connectAttempts, handshake, shellRequest,
                   stdinAll, startCommand, sent, lastCall, callVars, execCount, channelsOpened,
                   readerStarted, chanEOF, delivered, stdoutPending, readerEnd>>

\* a variant that appends a line terminator to what it read, as the
\* docstring of _stream_loop describes
LoopSend_AppendsNewline ==
    /\ pc = "loop_send"
    /\ ChannelOpen
    /\ sent' = Append(sent, command \o <<NL>>)
    /\ command' = <<>>
    /\ pc' = "loop_read"
    /\ UNCHANGED <<password, transport, transportGen, _connection_channel, connectAttempts,
                   handshake, shellRequest, closeCount, closer, stdinVars, startCommand, out, outOther, exitCode, raised,
                   lastCall, callVars, loopEnd, execCount, channelsOpened, readerStarted,
                   readerAlive, remoteVars, screenVars>>

\* the rest of the turn: "self._connection_channel.send(command)", "command = None"
LoopSend ==
    /\ pc = "loop_send"
    /\ ChannelOpen
    /\ sent' = Append(sent, command)
    /\ command' = <<>>
    /\ pc' = "loop_read"
    /\ UNCHANGED <<password, transport, transportGen, _connection_channel, connectAttempts,
                   handshake, shellRequest, closeCount, closer, stdinVars, startCommand, out, outOther, exitCode, raised,
                   lastCall, callVars, loopEnd, execCount, channelsOpened, readerStarted,
                   readerAlive, remoteVars, screenVars>>

LoopUnchanged ==
    UNCHANGED <<password, transportGen, _connection_channel, connectAttempts, handshake, shellRequest,
                stdinVars, command, startCommand, sent, lastCall, callVars, execCount,
                channelsOpened, readerStarted, chanEOF, delivered, stdoutPending, readerEnd>>

\* channel.send() raises: no except clause matches, the finally clause runs
LoopSendError ==
    /\ pc = "loop_send"
    /\ ~ChannelOpen
    /\ StreamLoopFinally("send_error", <<>>)
    /\ LoopUnchanged

\* sys.stdin.readline() raises
LoopReadError ==
    /\ pc = "loop_read"
    /\ StreamLoopFinally("read_error", <<>>)
    /\ LoopUnchanged

\* a variant without the except KeyboardInterrupt clause
LoopInterrupt_NoNotice ==
    /\ pc \in {"loop_read", "loop_send"}
    /\ StreamLoopFinally("interrupt", <<>>)
    /\ LoopUnchanged

\* KeyboardInterrupt inside the try block, at the read or at the send
LoopInterrupt ==
    /\ pc \in {"loop_read", "loop_send"}
    /\ StreamLoopFinally("interrupt", <<"disconnected_by_user">>)
    /\ LoopUnchanged

EnvUnchanged ==
    UNCHANGED <<pc, password, transportGen, _connection_channel, connectAttempts, handshake, shellRequest,
                closeCount,
                closer, stdinVars, loopVars, sent, out, outOther, exitCode, raised, lastCall, callVars,
                execCount, channelsOpened, readerStarted>>

\* _write_all_to_stdout: one turn with a non-empty recv(): decode, write, flush
ReaderWrite ==
    /\ readerAlive
    /\ chanData # <<>>
    /\ Utf8Ok(Head(chanData))
    /\ stdoutData' = stdoutData \o write(stdoutPending, decode(Head(chanData)))
    /\ stdoutPending' = <<>>
    /\ chanData' = Tail(chanData)
    /\ EnvUnchanged
    /\ UNCHANGED <<transport, readerAlive, chanEOF, delivered, readerEnd>>

\* _write_all_to_stdout: data.decode() raises UnicodeDecodeError, which
\* ends the thread; the chunk is not written
ReaderDecodeError ==
    /\ readerAlive
    /\ chanData # <<>>
    /\ ~Utf8Ok(Head(chanData))
    /\ chanData' = Tail(chanData)
    /\ readerAlive' = FALSE
    /\ readerEnd' = "decode_error"
    /\ EnvUnchanged
    /\ UNCHANGED <<transport, chanEOF, delivered, stdoutData, stdoutPending>>

\* _write_all_to_stdout: recv() returns nothing, "break"
ReaderStop ==
    /\ readerAlive
    /\ chanData = <<>>
    /\ chanEOF
    /\ readerAlive' = FALSE
    /\ readerEnd' = "eof"
    /\ EnvUnchanged
    /\ UNCHANGED <<transport, remoteVars, stdoutData, stdoutPending>>

\* the remote side writes a chunk on the channel; the k-th chunk is the one byte k
RemoteDeliver ==
    /\ pc # "exited"
    /\ ChannelOpen
    /\ Len(delivered) < MaxChunks
    /\ chanData' = Append(chanData, <<Len(delivered) + 1>>)
    /\ delivered' = Append(delivered, <<Len(delivered) + 1>>)
    /\ EnvUnchanged
    /\ UNCHANGED <<transport, readerAlive, chanEOF, screenVars>>

\* the remote side closes the channel (the remote shell ends)
RemoteCloseChannel ==
    /\ pc # "exited"
    /\ ChannelOpen
    /\ chanEOF' = TRUE
    /\ EnvUnchanged
    /\ UNCHANGED <<transport, readerAlive, chanData, delivered, screenVars>>

\* the transport stops being active (the connection drops)
RemoteDrop ==
    /\ pc # "exited"
    /\ transport = "active"
    /\ transport' = "inactive"
    /\ chanEOF' = TRUE
    /\ EnvUnchanged
    /\ UNCHANGED <<readerAlive, chanData, delivered, screenVars>>

\* the transport's is_active() starts to fail
TransportFault ==
    /\ pc # "exited"
    /\ transport = "active"
    /\ transport' = "faulty"
    /\ EnvUnchanged
    /\ UNCHANGED <<readerAlive, remoteVars, screenVars>>

Next ==
    \/ CallIsConnected
    \/ connect
    \/ send_command
    \/ get_interactive_shell
    \/ non_interactive_stream
    \/ LoopRead
    \/ LoopSend
    \/ LoopSendError
    \/ LoopReadError
    \/ LoopInterrupt
    \/ ReaderWrite
    \/ ReaderStop
    \/ RemoteDeliver
    \/ RemoteCloseChannel
    \/ RemoteDrop
    \/ TransportFault

Spec == Init /\ [][Next]_vars

\* the steps that wait for nothing but the scheduler are taken: the reader
\* thread's turns and the send of a line already read; readline() waits for
\* the user and gets no such guarantee
Fairness ==
    /\ WF_vars(ReaderWrite)
    /\ WF_vars(ReaderStop)
    /\ WF_vars(LoopSend)
    /\ WF_vars(LoopSendError)

SpecFair == Init /\ [][Next]_vars /\ Fairness

\* ------------------------------------------- the reader on a scripted channel
\* the chunks recv() may return: non-empty byte strings
ChunkSet == SeqsUpTo(ByteValues, MaxChunkBytes) \ {<<>>}

\* the state after connect(), the remote side writing a script of chunks and
\* closing the channel, and get_interactive_shell(): the reader has just been
\* started and the main thread waits in readline()
InitReader ==
    /\ pc = "loop_read"
    /\ password \in Passwords
    /\ transport = "active"
    /\ transportGen = 1
    /\ _connection_channel = 1
    /\ connectAttempts = 1
    /\ handshake = "accepted"
    /\ shellRequest = "granted"
    /\ closeCount = 0
    /\ closer = "none"
    /\ stdinAll = <<>>
    /\ stdinPos = 0
    /\ command = <<>>
    /\ startCommand = <<>>
    /\ sent = <<>>
    /\ out = <<"connecting", "connected">>
    /\ outOther = <<"connecting", "connected">>
    /\ exitCode = NoCode
    /\ raised = "none"
    /\ lastCall = "get_interactive_shell"
    /\ lastResult = "none"
    /\ returnedChannel = 0
    /\ cmdResult = <<>>
    /\ callArg = <<>>
    /\ raisedInfo = NoInfo
    /\ execStreams = <<>>
    /\ loopEnd = "none"
    /\ execCount = 0
    /\ channelsOpened = 1
    /\ readerStarted = 1
    /\ readerAlive = TRUE
    /\ chanData \in SeqsUpTo(ChunkSet, MaxChunks)
    /\ delivered = chanData
    /\ chanEOF = TRUE
    /\ stdoutData = <<>>
    /\ stdoutPending = <<>>
    /\ readerEnd = "none"

\* only the reader thread runs
NextReader ==
    \/ ReaderWrite
    \/ ReaderStop
    \/ ReaderDecodeError

SpecReader == InitReader /\ [][NextReader]_vars

\* ------------------------------------------------------------ properties
LoopPcs == {"loop_read", "loop_send"}

\* _stream_loop was entered (always together with the start of the reader)
LoopEntered == readerStarted > 0

\* a line as readline() yields it: not empty, a terminator only at its end
IsLine(l) == l # <<>> /\ \A i \in 1..(Len(l) - 1) : l[i] # NL

\* C1: entered with a non-empty command, _stream_loop sends exactly once
\* (the command and a line terminator) and never reads standard input
C1_SingleCommandSentOnce ==
    (LoopEntered /\ startCommand # <<>>) =>
        /\ Len(sent) <= 1
        /\ stdinPos = 0
        /\ (loopEnd = "eof" => sent = <<startCommand \o <<NL>>>>)

C3_LoopExitCloses ==
    (LoopEntered /\ pc \notin LoopPcs) =>
        /\ loopEnd \in {"eof", "interrupt", "read_error", "send_error"}
        /\ closeCount = 1
        /\ closer = "_stream_loop"
        /\ transport = "none"

C3_Witness ==
    /\ loopEnd = "send_error"
    /\ closeCount = 1
    /\ transport = "none"

\* C4: a KeyboardInterrupt at the read or at the send ends the loop in
\* that step: nothing is sent by it or after it, the notice and then the
\* closing line are printed, the client is closed and the only thing the
\* caller sees is the exit of close()
C4_InterruptStopsLoop ==
    [][/\ (loopEnd' = "interrupt" /\ loopEnd # "interrupt") =>
            /\ sent' = sent
            /\ out' = out \o <<"disconnected_by_user", "closed">>
            /\ transport' = "none"
            /\ closeCount' = closeCount + 1
            /\ raised' = "SystemExit"
            /\ exitCode' = 0
            /\ pc' = "exited"
       /\ (loopEnd = "interrupt" => sent' = sent /\ raised' = raised /\ pc' = pc)]_vars

C4_Witness ==
    /\ loopEnd = "interrupt"
    /\ pc = "exited"
    /\ Len(sent) = 1
    /\ command # <<>>

\* the session is not connected: no transport, or one that is not active
NotConnectedState == transport \in {"none", "inactive"}

\* C5: called on a session that is not connected, send_command,
\* get_interactive_shell and non_interactive_stream raise the not-connected
\* error and do nothing else: no exec_command, no send, no reader, no close
C5_NotConnectedNoIO ==
    [][(NotConnectedState /\ (send_command \/ get_interactive_shell \/ non_interactive_stream)) =>
            /\ raised' \in {"NotConnected", "SSHException"}
            /\ pc' = "idle"
            /\ UNCHANGED <<transport, transportGen, _connection_channel, connectAttempts,
                           closeCount, closer, sent, out, exitCode, execCount,
                           readerStarted, readerAlive>>]_vars

C5_Witness ==
    /\ transport = "inactive"
    /\ lastCall = "send_command"
    /\ raised = "NotConnected"
    /\ execCount = 0

\* C6: is_connected never raises, returns true exactly when the transport
\* reports active (false without a transport and when the probe fails) and
\* changes nothing of the session
C6_IsConnectedNeverRaises ==
    [][CallIsConnected =>
            /\ raised' = "none"
            /\ lastResult' = (IF transport = "active" THEN "true" ELSE "false")
            /\ UNCHANGED sessionVars]_vars

\* a step of connect()
ConnectStep == connectAttempts' # connectAttempts

\* connect() took one of its except clauses: the line it printed, then close(1)
ConnectFailedWith(line) ==
    /\ out' = out \o <<"connecting", line, "closed">>
    /\ closeCount' = closeCount + 1
    /\ transport' = "none"
    /\ exitCode' = 1
    /\ pc' = "exited"
    /\ returnedChannel' = 0

\* C7 as stated: an accepted handshake ends connected with the returned
\* channel stored; rejected credentials end closed with no channel stored
C7_Original ==
    [][ConnectStep =>
            /\ handshake' = "accepted" =>
                  /\ transport' = "active"
                  /\ returnedChannel' # 0
                  /\ _connection_channel' = returnedChannel'
            /\ handshake' = "rejected" =>
                  /\ ConnectFailedWith("auth_failed")
                  /\ _connection_channel' = 0]_vars

\* C7: an accepted handshake followed by a granted shell request ends
\* connected and returns a channel that is also stored in
\* _connection_channel; rejected credentials print the authentication
\* failure and close the client with exit code 1, a refused shell request
\* prints a connection error and closes likewise, and in both cases nothing
\* is returned and _connection_channel keeps the value it had
C7_ConnectOutcomes ==
    [][ConnectStep =>
            /\ (handshake' = "accepted" /\ shellRequest' = "granted") =>
                  /\ transport' = "active"
                  /\ returnedChannel' # 0
                  /\ _connection_channel' = returnedChannel'
                  /\ raised' = "none"
                  /\ pc' = "idle"
                  /\ UNCHANGED <<closeCount, exitCode>>
            /\ handshake' = "rejected" =>
                  /\ ConnectFailedWith("auth_failed")
                  /\ _connection_channel' = _connection_channel
            /\ (handshake' = "accepted" /\ shellRequest' = "refused") =>
                  /\ ConnectFailedWith("connection_error")
                  /\ _connection_channel' = _connection_channel]_vars

C7_Witness ==
    /\ lastCall = "connect"
    /\ handshake = "rejected"
    /\ connectAttempts = 2
    /\ _connection_channel = 1
    /\ exitCode = 1

\* C8: the process exits with 0 exactly after a clean end of the session
\* (end of input or user interrupt) and with 1 whenever connect() failed
C8_ExitCodes ==
    pc = "exited" =>
        /\ exitCode = 0 <=> loopEnd \in {"eof", "interrupt"}
        /\ closer = "connect" => exitCode = 1

\* the state of the session: Closed once close() has run, Connected once a
\* client.connect() has succeeded, Disconnected before
SessionState ==
    IF closeCount > 0 THEN "Closed"
    ELSE IF transportGen > 0 THEN "Connected"
    ELSE "Disconnected"

\* C9: the session becomes Connected only by an accepted handshake, leaves
\* Connected only for Closed, and once Closed (close() has run, which
\* includes every failed connect()) stays Closed with no further
\* client.connect()
C9_ClosedIsTerminal ==
    [][/\ (SessionState = "Closed" =>
              SessionState' = "Closed" /\ connectAttempts' = connectAttempts)
       /\ (SessionState = "Connected" => SessionState' \in {"Connected", "Closed"})
       /\ (SessionState = "Disconnected" /\ SessionState' = "Connected" =>
              ConnectStep /\ handshake' = "accepted")
       /\ (ConnectStep /\ pc' # "idle" => SessionState' = "Closed")]_vars

C9_Witness ==
    /\ SessionState = "Closed"
    /\ closer = "_stream_loop"
    /\ connectAttempts < MaxConnects

\* C10 as stated: the client is closed only once and only from _stream_loop
C10_Original ==
    closeCount > 0 => (closeCount = 1 /\ closer = "_stream_loop")

\* C10: the client is closed at most once in a run, by close() called from
\* the finally clause of _stream_loop or from an except clause of
\* connect(), and the process has then exited
C10_ClosedOnce ==
    /\ closeCount <= 1
    /\ closeCount = 1 <=> closer # "none"
    /\ closeCount = 1 => (closer \in {"_stream_loop", "connect"} /\ pc = "exited")

C10_Witness ==
    /\ closeCount = 1
    /\ closer = "connect"
    /\ handshake = "unreachable"

\* C11: for a script of chunks that together are whole characters, the
\* reader ends only on the zero-length read, and has then written and
\* flushed the text of every chunk, once and in order
C11_ReaderReproducesChunks ==
    Utf8Ok(Flatten(delivered)) =>
        /\ readerEnd # "decode_error"
        /\ readerEnd = "eof" =>
              /\ Flatten(stdoutData) = decode(Flatten(delivered))
              /\ Len(stdoutData) = Len(delivered)
              /\ stdoutPending = <<>>
              /\ chanData = <<>>

\* the relay is running: the main thread is inside _stream_loop
RelayRunning == pc \in LoopPcs

\* both sides have stopped and the connection is closed
TornDown == pc = "exited" /\ ~readerAlive /\ transport = "none"

\* C12: end of input and user interrupt end in the torn-down state, and
\* once the remote side has closed the channel of a running relay the
\* torn-down state is reached without any further local input
C12_TeardownOnEveryEvent ==
    /\ [](loopEnd \in {"eof", "interrupt"} => TornDown)
    /\ ((RelayRunning /\ chanEOF) ~> TornDown)

\* the interactive shell channel that connect() opened is still open
ShellChannelOpen ==
    /\ _connection_channel # 0
    /\ transport \in {"active", "faulty"}
    /\ ~chanEOF

\* C13 as stated: no channel is opened while an earlier one is still open
C13_Original ==
    [][channelsOpened' > channelsOpened => ~ShellChannelOpen]_vars

\* C13: a channel is opened only by a connect() whose shell request is
\* granted (the channel it stores) and by a send_command() that dispatches
\* on a connected session, one channel each, the latter next to the shell
\* channel when that is still open; get_interactive_shell(),
\* non_interactive_stream(), the loop and the reader open none
C13_ChannelsOpenedBy ==
    [][channelsOpened' # channelsOpened =>
            /\ channelsOpened' = channelsOpened + 1
            /\ pc = "idle"
            /\ \/ /\ ConnectStep
                  /\ shellRequest' = "granted"
                  /\ _connection_channel' = transportGen'
                  /\ UNCHANGED execCount
               \/ /\ lastCall' = "send_command"
                  /\ execCount' = execCount + 1
                  /\ transport = "active"
                  /\ UNCHANGED <<connectAttempts, _connection_channel>>]_vars

C13_Witness ==
    /\ channelsOpened = 2
    /\ execCount = 1
    /\ connectAttempts = 1
    /\ ShellChannelOpen

\* a step in which send_command() dispatched a command and returned
SendCommandReturned ==
    /\ lastCall' = "send_command"
    /\ execCount' = execCount + 1
    /\ raised' = "none"

\* the labelled form of two texts
Labelled(so, se) == <<"STDOUT:", NL>> \o so \o <<NL, NL, "STDERR:", NL>> \o se

\* t is raw without the whitespace at its two ends
IsStripOf(t, raw) ==
    /\ t = <<>> \/ (t[1] # NL /\ t[Len(t)] # NL)
    /\ \E i \in 0..Len(raw), j \in 0..Len(raw) :
          /\ i + Len(t) + j = Len(raw)
          /\ \A k \in 1..i : raw[k] = NL
          /\ \A k \in 1..Len(t) : raw[i + k] = t[k]
          /\ \A k \in 1..j : raw[i + Len(t) + k] = NL

SendCommandFailed ==
    /\ lastCall' = "send_command"
    /\ execCount' = execCount + 1
    /\ Len(execStreams') < 2

\* C15: when the dispatch or a read fails, send_command() raises the
\* command-execution error with the command it was given and the cause,
\* returns nothing, also not the text already read, and leaves the
\* connection as it was
C15_FailureCarriesCommand ==
    [][SendCommandFailed =>
            /\ raised' = "CommandFailed"
            /\ raisedInfo'.command = callArg'
            /\ raisedInfo'.cause \in {"dispatch_error", "stdout_error", "stderr_error"}
            /\ cmdResult' = <<>>
            /\ pc' = "idle"
            /\ UNCHANGED <<transport, transportGen, _connection_channel, closeCount, closer,
                           exitCode, out, readerStarted, sent>>]_vars

C15_Witness ==
    /\ lastCall = "send_command"
    /\ raised = "CommandFailed"
    /\ raisedInfo = [command |-> <<"u">>, cause |-> "stderr_error"]
    /\ execStreams = <<<<"h">>>>
    /\ cmdResult = <<>>
    /\ transport = "active"

C17_Original ==
    ShellChannelOpen => (readerStarted = 1 /\ readerAlive)

\* C17: a process starts at most one reader; it is started by
\* get_interactive_shell() or non_interactive_stream() on a connected
\* session, for the shell channel that connect() stored, which had no
\* reader until then
C17_AtMostOneReader ==
    /\ [](readerStarted <= 1 /\ (readerAlive => readerStarted = 1))
    /\ [][readerStarted' # readerStarted =>
              /\ readerStarted = 0 /\ ~readerAlive
              /\ readerStarted' = 1 /\ readerAlive'
              /\ lastCall' \in {"get_interactive_shell", "non_interactive_stream"}
              /\ is_connected(transport) = "true"
              /\ _connection_channel # 0
              /\ UNCHANGED <<_connection_channel, channelsOpened>>]_vars

C17_Witness ==
    /\ readerStarted = 1
    /\ readerAlive
    /\ connectAttempts = 2
    /\ channelsOpened = 3
    /\ lastCall = "non_interactive_stream"

\* C18: once the writer loop has ended and the process has exited, every
\* chunk the channel held when the loop ended has been written to standard
\* output
C18_DrainedBeforeExit ==
    (pc = "exited" /\ LoopEntered) =>
        /\ chanData = <<>>
        /\ stdoutData = [i \in 1..Len(delivered) |-> decode(delivered[i])]

\* C19: when the loop ends by an exception of readline() or of send(), the
\* caller does not see it: close(0) of the finally clause has ended the
\* process with code 0, the code of a clean end of input
C19_ErrorEndsWithExitZero ==
    /\ loopEnd \in {"read_error", "send_error"} =>
          /\ pc = "exited"
          /\ raised = "SystemExit"
          /\ exitCode = 0
          /\ closer = "_stream_loop"
    /\ loopEnd = "eof" => exitCode = 0

C19_Witness ==
    /\ loopEnd = "send_error"
    /\ pc = "exited"
    /\ raised = "SystemExit"
    /\ exitCode = 0
    /\ chanEOF
    /\ sent = <<>>

\* C20: whenever is_connected is true, _connection_channel is the channel
\* a successful connect() opened on the transport that is active now; so it
\* is when the reader is started and when the writer loop sends
C20_ChannelOfActiveTransport ==
    /\ [](is_connected(transport) = "true" =>
              /\ _connection_channel # 0
              /\ _connection_channel = transportGen
              /\ handshake = "accepted"
              /\ shellRequest = "granted")
    /\ [][(readerStarted' # readerStarted \/ sent' # sent) =>
              /\ is_connected(transport) = "true"
              /\ _connection_channel # 0
              /\ _connection_channel = transportGen
              /\ UNCHANGED <<_connection_channel, transportGen>>]_vars

C20_Witness ==
    /\ transport = "active"
    /\ transportGen = 2
    /\ _connection_channel = 2
    /\ readerStarted = 1
    /\ sent # <<>>
====
